---- MODULE Spec2Model ----
(***************************************************************************)
(* Habitat-suitability calculator (src/calculate_uha.py).                  *)
(*                                                                         *)
(* Numbers are exact rationals [n, d] with d > 0 in lowest terms; the      *)
(* floating-point NaN is the record with d = 0.  Rounding of float64 and   *)
(* the float32 cast on write are not modelled.  Arrays are sequences of    *)
(* rows.  A masked array holds cells [v, m] (value, mask bit).             *)
(***************************************************************************)
EXTENDS Integers, Sequences, FiniteSets, TLC

VARIABLES
    pc,             \* position of calculate_habitat
    threshold,      \* argument `threshold`
    h_pts, si_h_pts, v_pts, si_v_pts,   \* curves returned by read_suitability_csv
    dep_src, vel_src,   \* the opened rasters (height, width, transform, nodata, samples)
    depth, velocity,    \* masked arrays
    resampled,      \* which branch of the grid comparison was taken
    si_h, si_v, chsi,   \* suitability arrays
    files,          \* state of the three output files on disk
    n_pixels, total_area_m2,    \* the reported summary
    error,          \* the exception that ended the run, "" if none
    stages          \* stages executed so far, in order

vars == <<pc, threshold, h_pts, si_h_pts, v_pts, si_v_pts, dep_src, vel_src,
          depth, velocity, resampled, si_h, si_v, chsi, files, n_pixels,
          total_area_m2, error, stages>>

-----------------------------------------------------------------------------
(* Bounds of the model *)

\* largest number of data rows of the curve CSV
MaxRows == 3
\* largest width of the depth raster (one row), and largest number of cells
\* of the velocity raster
MaxW == 2
MaxCells == 2
\* largest break-point x, and largest number of break points, of the curves
\* the interpolation is checked on in isolation
MaxX == 2
MaxPts == 3
\* largest length of the value array the interpolation is checked on
MaxLen == 2

-----------------------------------------------------------------------------
(* float arithmetic, exact *)

Abs(i) == IF i < 0 THEN -i ELSE i

RECURSIVE Gcd(_, _)
Gcd(a, b) == IF b = 0 THEN a ELSE Gcd(b, a % b)

NaN == [n |-> 0, d |-> 0]

IsNaN(a) == a.d = 0

\* the rational n/d (d # 0) in lowest terms
Rat(n, d) ==
    LET g == Gcd(Abs(n), Abs(d))
        s == IF d < 0 THEN -1 ELSE 1
    IN  [n |-> s * (n \div g), d |-> s * (d \div g)]

Num(i) == [n |-> i, d |-> 1]

RAdd(a, b) == IF IsNaN(a) \/ IsNaN(b) THEN NaN ELSE Rat(a.n * b.d + b.n * a.d, a.d * b.d)

RSub(a, b) == IF IsNaN(a) \/ IsNaN(b) THEN NaN ELSE Rat(a.n * b.d - b.n * a.d, a.d * b.d)

RMul(a, b) == IF IsNaN(a) \/ IsNaN(b) THEN NaN ELSE Rat(a.n * b.n, a.d * b.d)

\* 0/0 is NaN; x/0 (x # 0) is an infinity, which the curves modelled here
\* (unique x) never produce
RDiv(a, b) ==
    IF IsNaN(a) \/ IsNaN(b) \/ b.n = 0 THEN NaN ELSE Rat(a.n * b.d, a.d * b.n)

\* comparisons with NaN are false
RLt(a, b) == ~IsNaN(a) /\ ~IsNaN(b) /\ a.n * b.d < b.n * a.d

RGt(a, b) == RLt(b, a)

RLe(a, b) == ~IsNaN(a) /\ ~IsNaN(b) /\ a.n * b.d <= b.n * a.d

-----------------------------------------------------------------------------
(* arrays *)

Shape(arr) == IF Len(arr) = 0 THEN <<0, 0>> ELSE <<Len(arr), Len(arr[1])>>

Cells(arr) == {rc \in (1..Len(arr)) \X (1..Shape(arr)[2]) : TRUE}

\* the values of the cells of an array
CellSet(arr) == {arr[rc[1]][rc[2]] : rc \in Cells(arr)}

-----------------------------------------------------------------------------
(* piecewise_linear: interpolation with linear extrapolation *)

\* index of the last break point with xp[j] <= x, for xp[1] <= x
LastLe(x, xp) == CHOOSE j \in 1..Len(xp) :
    /\ RLe(xp[j], x)
    /\ \A k \in 1..Len(xp) : RLe(xp[k], x) => k <= j

\* a lookup that returns the left break point's y instead of interpolating
np_interp_step(x, xp, fp) ==
    IF IsNaN(x) THEN x
    ELSE IF RLt(x, xp[1]) THEN fp[1]
    ELSE fp[LastLe(x, xp)]

\* numpy.interp for one value, xp non-empty: clamps to fp[1] / fp[last]
\* outside the domain; with a single break point a NaN is not propagated
np_interp(x, xp, fp) ==
    LET last == Len(xp) IN
    IF last = 1
    THEN IF RLt(x, xp[1]) THEN fp[1] ELSE IF RGt(x, xp[1]) THEN fp[last] ELSE fp[1]
    ELSE IF IsNaN(x) THEN x
    ELSE IF RLt(x, xp[1]) THEN fp[1]
    ELSE IF RGt(x, xp[last]) THEN fp[last]
    ELSE LET j == LastLe(x, xp) IN
         IF j = last THEN fp[j]
         ELSE IF xp[j] = x THEN fp[j]
         ELSE LET slope == RDiv(RSub(fp[j + 1], fp[j]), RSub(xp[j + 1], xp[j]))
              IN  RAdd(RMul(slope, RSub(x, xp[j])), fp[j])

\* si[left] = y_pts[0] + slope_left * (arr[left] - x_pts[0])
ExtrapolateLeft(v, x_pts, y_pts) ==
    LET slope_left == RDiv(RSub(y_pts[2], y_pts[1]), RSub(x_pts[2], x_pts[1]))
    IN  RAdd(y_pts[1], RMul(slope_left, RSub(v, x_pts[1])))

\* right extrapolation with the slope of the first segment
ExtrapolateRight_first_slope(v, x_pts, y_pts) ==
    LET n == Len(x_pts)
        slope == RDiv(RSub(y_pts[2], y_pts[1]), RSub(x_pts[2], x_pts[1]))
    IN  RAdd(y_pts[n], RMul(slope, RSub(v, x_pts[n])))

\* si[right] = y_pts[-1] + slope_right * (arr[right] - x_pts[-1])
ExtrapolateRight(v, x_pts, y_pts) ==
    LET n == Len(x_pts)
        slope_right == RDiv(RSub(y_pts[n], y_pts[n - 1]), RSub(x_pts[n], x_pts[n - 1]))
    IN  RAdd(y_pts[n], RMul(slope_right, RSub(v, x_pts[n])))

\* the SI of one cell, for a curve of at least two break points
PiecewiseCell(v, x_pts, y_pts) ==
    IF RLt(v, x_pts[1]) THEN ExtrapolateLeft(v, x_pts, y_pts)
    ELSE IF RGt(v, x_pts[Len(x_pts)]) THEN ExtrapolateRight(v, x_pts, y_pts)
    ELSE np_interp(v, x_pts, y_pts)

\* piecewise_linear(values, x_pts, y_pts): [err, si].  numpy.interp raises
\* ValueError on an empty curve; y_pts[1] and y_pts[-2] raise IndexError on a
\* one-point curve, but only when some value lies left or right of it.
piecewise_linear(values, x_pts, y_pts) ==
    IF Len(x_pts) = 0 THEN [err |-> "ValueError", si |-> <<>>]
    ELSE IF Len(x_pts) = 1
    THEN IF \E v \in CellSet(values) : RLt(v, x_pts[1]) \/ RGt(v, x_pts[1])
         THEN [err |-> "IndexError", si |-> <<>>]
         ELSE [err |-> "",
               si |-> [r \in 1..Len(values) |-> [c \in 1..Len(values[r]) |->
                        np_interp(values[r][c], x_pts, y_pts)]]]
    ELSE [err |-> "",
          si |-> [r \in 1..Len(values) |-> [c \in 1..Len(values[r]) |->
                   PiecewiseCell(values[r][c], x_pts, y_pts)]]]

-----------------------------------------------------------------------------
(* read_suitability_csv *)

\* a CSV row: the four columns h, si_h, v, si_v; an empty field is NaN
Row(h, sh, v, sv) == [h |-> h, si_h |-> sh, v |-> v, si_v |-> sv]

\* raw[[x, y]].dropna(): the rows with both fields present, as pairs
DropNa(pairs) == SelectSeq(pairs, LAMBDA p : ~IsNaN(p[1]) /\ ~IsNaN(p[2]))

RECURSIVE InsertSorted(_, _)
InsertSorted(p, s) ==
    IF s = <<>> THEN <<p>>
    ELSE IF RLe(p[1], s[1][1]) THEN <<p>> \o s
    ELSE <<s[1]>> \o InsertSorted(p, Tail(s))

\* df.sort_values(x): ascending by the x column
RECURSIVE SortValues(_)
SortValues(s) == IF s = <<>> THEN <<>> ELSE InsertSorted(s[1], SortValues(Tail(s)))

\* the four arrays returned: h, si_h, v, si_v
read_suitability_csv(raw) ==
    LET depth_df == SortValues(DropNa([i \in 1..Len(raw) |-> <<raw[i].h, raw[i].si_h>>]))
        vel_df   == SortValues(DropNa([i \in 1..Len(raw) |-> <<raw[i].v, raw[i].si_v>>]))
    IN  << [i \in 1..Len(depth_df) |-> depth_df[i][1]],
           [i \in 1..Len(depth_df) |-> depth_df[i][2]],
           [i \in 1..Len(vel_df) |-> vel_df[i][1]],
           [i \in 1..Len(vel_df) |-> vel_df[i][2]] >>

-----------------------------------------------------------------------------
(* rasters *)

\* an opened dataset; transform is the affine (a, b, c, d, e, f)
Raster(h, w, t, nd, smp) ==
    [height |-> h, width |-> w, transform |-> t, nodata |-> nd, samples |-> smp]

\* before a dataset is opened
NoRaster == Raster(0, 0, <<>>, NaN, <<>>)

\* src.read(1, masked=True).astype(float): cells equal to the nodata marker
\* are masked
ReadMasked(src) ==
    [r \in 1..src.height |-> [c \in 1..src.width |->
        [v |-> src.samples[r][c], m |-> src.samples[r][c] = src.nodata]]]

\* source rows (columns) under output row (column) i when n source lines are
\* stretched over out output lines
SrcLines(i, n, out) == (((i - 1) * n) \div out + 1) .. (((i * n - 1) \div out) + 1)

RECURSIVE SumOver(_, _)
SumOver(S, smp) ==
    IF S = {} THEN Num(0)
    ELSE LET rc == CHOOSE x \in S : TRUE
         IN  RAdd(smp[rc[1]][rc[2]], SumOver(S \ {rc}, smp))

\* src.read(out_shape=(1, height, width), resampling=bilinear)[0]: a plain
\* array (no mask).  With the source's own shape the samples are copied as
\* stored.  Otherwise each output cell averages the source cells under it that
\* are not the nodata marker, and is the nodata marker when there is none
\* (weights taken as uniform).
ReadResampled(src, height, width) ==
    [r \in 1..height |-> [c \in 1..width |->
        LET under == SrcLines(r, src.height, height) \X SrcLines(c, src.width, width)
            valid == {rc \in under : src.samples[rc[1]][rc[2]] # src.nodata}
            val   == IF valid = {} THEN src.nodata
                     ELSE RDiv(SumOver(valid, src.samples), Num(Cardinality(valid)))
        IN  [v |-> val, m |-> FALSE]]]

\* np.ma.masked_invalid: NaN cells are masked as well
masked_invalid(marr) ==
    [r \in 1..Len(marr) |-> [c \in 1..Len(marr[r]) |->
        [v |-> marr[r][c].v, m |-> marr[r][c].m \/ IsNaN(marr[r][c].v)]]]

\* marr.filled(np.nan)
Filled(marr) ==
    [r \in 1..Len(marr) |-> [c \in 1..Len(marr[r]) |->
        IF marr[r][c].m THEN NaN ELSE marr[r][c].v]]

\* a grid comparison that looks at the shape only
GridsDiffer_shape_only(vel, dep) ==
    \/ vel.width # dep.width
    \/ vel.height # dep.height

\* the grid comparison of calculate_habitat
GridsDiffer(vel, dep) ==
    \/ vel.width # dep.width
    \/ vel.height # dep.height
    \/ vel.transform # dep.transform

\* vel_data of calculate_habitat
ReadVelocity(vel, dep) ==
    IF GridsDiffer(vel, dep)
    THEN ReadResampled(vel, dep.height, dep.width)
    ELSE ReadMasked(vel)

-----------------------------------------------------------------------------
(* combined HSI and the summary *)

\* a root taken of the magnitude: never NaN for a negative product
np_sqrt_abs(p) == [rad |-> IF IsNaN(p) THEN NaN ELSE [n |-> Abs(p.n), d |-> p.d]]

\* np.sqrt(p), kept as its radicand: NaN for a NaN or negative p (numpy warns
\* and does not raise), else the root of p
np_sqrt(p) == [rad |-> IF IsNaN(p) \/ p.n < 0 THEN NaN ELSE p]

SqrtIsNaN(s) == IsNaN(s.rad)

\* sqrt(rad) >= t: a cell at the threshold counts
SqrtGe(s, t) ==
    /\ ~IsNaN(s.rad)
    /\ ~IsNaN(t)
    /\ (t.n < 0 \/ RLe(RMul(t, t), s.rad))

\* sqrt(rad) > t, false for NaN
SqrtGt(s, t) ==
    /\ ~IsNaN(s.rad)
    /\ ~IsNaN(t)
    /\ (t.n < 0 \/ RGt(s.rad, RMul(t, t)))

\* np.sqrt(si_h * si_v)
Composite(a, b) ==
    [r \in 1..Len(a) |-> [c \in 1..Len(a[r]) |-> np_sqrt(RMul(a[r][c], b[r][c]))]]

\* usable = chsi > threshold, as the set of usable cells
Usable(arr, t) == {rc \in Cells(arr) : SqrtGt(arr[rc[1]][rc[2]], t)}

\* np.count_nonzero(usable)
CountUsable(arr, t) == Cardinality(Usable(arr, t))

\* abs(transform[0] * transform[4])
PixelArea(transform) == Abs(transform[1] * transform[5])

-----------------------------------------------------------------------------
(* inputs *)

\* thresholds tried: 0, 0.5 and the CLI default 0.6
Thresholds == {Num(0), Rat(1, 2), Rat(3, 5)}

\* fields of the curve CSV: an (x, y) pair of a row, complete or not
CsvPairs ==
    {<<Num(0), Num(0)>>, <<Num(2), Num(0)>>, <<Num(2), Num(1)>>,
     <<NaN, Num(1)>>, <<Num(2), NaN>>}

\* the documented precondition of the curves: the x of the complete pairs
\* of a column are unique
UniqueX(col) ==
    \A i, j \in 1..Len(col) :
        (i # j /\ ~IsNaN(col[i][1]) /\ ~IsNaN(col[i][2])
               /\ ~IsNaN(col[j][1]) /\ ~IsNaN(col[j][2])) => col[i][1] # col[j][1]

\* the nodata marker of the input rasters
SrcNoData == Num(0 - 9999)

\* samples stored in the input rasters
SampleVals == {Num(0 - 1), Num(2), SrcNoData}

\* affine transforms: 10 m pixels (the depth grid), and 5 m pixels
DepthTransform == <<10, 0, 0, 0, 0 - 10, 0>>

Transforms == {DepthTransform, <<5, 0, 0, 0, 0 - 5, 0>>}

ShapesUpTo(n) == {hw \in (1..n) \X (1..n) : hw[1] * hw[2] <= n}

RastersOf(shapes, transforms) ==
    UNION {{Raster(hw[1], hw[2], t, SrcNoData, smp) :
                smp \in [1..hw[1] -> [1..hw[2] -> SampleVals]]} :
           hw \in shapes, t \in transforms}

DepthRasters == RastersOf({1} \X (1..MaxW), {DepthTransform})

VelocityRasters == RastersOf(ShapesUpTo(MaxCells), Transforms)

-----------------------------------------------------------------------------
(* calculate_habitat *)

StageOrder ==
    <<"curve_load", "open_align", "compute", "write_si_depth",
      "write_si_velocity", "write_chsi", "summary">>

OutputFiles == {"SI_depth.tif", "SI_velocity.tif", "cHSI.tif"}

Init ==
    /\ pc = "curve_load"
    /\ threshold \in Thresholds
    /\ h_pts = <<>> /\ si_h_pts = <<>> /\ v_pts = <<>> /\ si_v_pts = <<>>
    /\ dep_src = NoRaster /\ vel_src = NoRaster
    /\ depth = <<>> /\ velocity = <<>>
    /\ resampled = FALSE
    /\ si_h = <<>> /\ si_v = <<>> /\ chsi = <<>>
    /\ files = [f \in OutputFiles |-> "absent"]
    /\ n_pixels = 0 /\ total_area_m2 = 0
    /\ error = ""
    /\ stages = <<>>

\* an exception leaves calculate_habitat: nothing later runs
Raise(kind) ==
    /\ pc' = "failed"
    /\ error' = kind

\* out_dir.mkdir and read_suitability_csv
LoadCurves ==
    /\ pc = "curve_load"
    /\ \E n \in 0..MaxRows : \E dcol \in [1..n -> CsvPairs] :
        /\ UniqueX(dcol)
        /\ \E vcol \in [1..n -> CsvPairs] :
            /\ UniqueX(vcol)
            /\ LET raw == [i \in 1..n |->
                            Row(dcol[i][1], dcol[i][2], vcol[i][1], vcol[i][2])]
                   got == read_suitability_csv(raw)
               IN  /\ h_pts' = got[1]
                   /\ si_h_pts' = got[2]
                   /\ v_pts' = got[3]
                   /\ si_v_pts' = got[4]
    /\ pc' = "open_align"
    /\ stages' = Append(stages, "curve_load")
    /\ UNCHANGED <<threshold, dep_src, vel_src, depth, velocity, resampled,
                   si_h, si_v, chsi, files, n_pixels, total_area_m2, error>>

\* the directory cannot be made or the CSV cannot be read
LoadCurvesFail ==
    /\ pc = "curve_load"
    /\ Raise("IOError")
    /\ UNCHANGED <<threshold, h_pts, si_h_pts, v_pts, si_v_pts, dep_src, vel_src,
                   depth, velocity, resampled, si_h, si_v, chsi, files,
                   n_pixels, total_area_m2, stages>>

\* open both rasters, read the depth, read or resample the velocity
OpenAlign ==
    /\ pc = "open_align"
    /\ \E dep \in DepthRasters, vel \in VelocityRasters :
        /\ dep_src' = dep
        /\ vel_src' = vel
        /\ depth' = ReadMasked(dep)
        /\ resampled' = GridsDiffer(vel, dep)
        /\ velocity' = masked_invalid(ReadVelocity(vel, dep))
    /\ pc' = "compute"
    /\ stages' = Append(stages, "open_align")
    /\ UNCHANGED <<threshold, h_pts, si_h_pts, v_pts, si_v_pts, si_h, si_v, chsi,
                   files, n_pixels, total_area_m2, error>>

\* a raster cannot be opened or read
OpenAlignFail ==
    /\ pc = "open_align"
    /\ Raise("IOError")
    /\ UNCHANGED <<threshold, h_pts, si_h_pts, v_pts, si_v_pts, dep_src, vel_src,
                   depth, velocity, resampled, si_h, si_v, chsi, files,
                   n_pixels, total_area_m2, stages>>

\* the two SI rasters and the combined HSI; piecewise_linear may raise
ComputeSI ==
    /\ pc = "compute"
    /\ LET rh == piecewise_linear(Filled(depth), h_pts, si_h_pts)
           rv == piecewise_linear(Filled(velocity), v_pts, si_v_pts)
       IN  IF rh.err # ""
           THEN /\ Raise(rh.err)
                /\ UNCHANGED <<si_h, si_v, chsi, stages>>
           ELSE IF rv.err # ""
           THEN /\ Raise(rv.err)
                /\ si_h' = rh.si
                /\ UNCHANGED <<si_v, chsi, stages>>
           ELSE /\ si_h' = rh.si
                /\ si_v' = rv.si
                /\ chsi' = Composite(rh.si, rv.si)
                /\ pc' = "write_si_depth"
                /\ stages' = Append(stages, "compute")
                /\ UNCHANGED error
    /\ UNCHANGED <<threshold, h_pts, si_h_pts, v_pts, si_v_pts, dep_src, vel_src,
                   depth, velocity, resampled, files, n_pixels, total_area_m2>>

\* _write(name, arr): rasterio.open(path, "w") creates the file, dst.write
\* fills it, leaving the with-block closes it.  Either call may raise, and
\* nothing removes a file that was created.
Write(stage, name, next) ==
    /\ pc = stage
    /\ \E outcome \in {"ok", "open_raises", "write_raises"} :
        \/ /\ outcome = "ok"
           /\ files' = [files EXCEPT ![name] = "complete"]
           /\ pc' = next
           /\ stages' = Append(stages, stage)
           /\ UNCHANGED error
        \/ /\ outcome = "open_raises"
           /\ Raise("IOError")
           /\ UNCHANGED <<files, stages>>
        \/ /\ outcome = "write_raises"
           /\ files' = [files EXCEPT ![name] = "partial"]
           /\ Raise("IOError")
           /\ UNCHANGED stages
    /\ UNCHANGED <<threshold, h_pts, si_h_pts, v_pts, si_v_pts, dep_src, vel_src,
                   depth, velocity, resampled, si_h, si_v, chsi, n_pixels,
                   total_area_m2>>

WriteSIDepth == Write("write_si_depth", "SI_depth.tif", "write_si_velocity")

WriteSIVelocity == Write("write_si_velocity", "SI_velocity.tif", "write_chsi")

WriteCHSI == Write("write_chsi", "cHSI.tif", "summary")

\* usable-habitat statistics, printed
Summary ==
    /\ pc = "summary"
    /\ n_pixels' = CountUsable(chsi, threshold)
    /\ total_area_m2' = CountUsable(chsi, threshold) * PixelArea(dep_src.transform)
    /\ pc' = "done"
    /\ stages' = Append(stages, "summary")
    /\ UNCHANGED <<threshold, h_pts, si_h_pts, v_pts, si_v_pts, dep_src, vel_src,
                   depth, velocity, resampled, si_h, si_v, chsi, files, error>>

Next ==
    \/ LoadCurves
    \/ LoadCurvesFail
    \/ OpenAlign
    \/ OpenAlignFail
    \/ ComputeSI
    \/ WriteSIDepth
    \/ WriteSIVelocity
    \/ WriteCHSI
    \/ Summary

Spec == Init /\ [][Next]_vars

-----------------------------------------------------------------------------
(* piecewise_linear on its own: every curve and value array within the bounds *)

\* strictly ascending break-point x-values 0..MaxX, at most MaxPts of them
AscendingX ==
    UNION {{xs \in [1..k -> {Num(x) : x \in 0..MaxX}] :
                \A i \in 1..(k - 1) : RLt(xs[i], xs[i + 1])} : k \in 0..MaxPts}

\* suitability values of the break points
CurveY == {Num(0), Rat(1, 2), Num(1)}

\* cell values: -1, the halves from 0 to MaxX, MaxX + 1, and NaN
CellVals == {Rat(k, 2) : k \in 0..(2 * MaxX)} \cup {Num(0 - 1), Num(MaxX + 1), NaN}

\* one-row arrays of at most MaxLen cells
ValueArrays == UNION {{<<row>> : row \in [1..n -> CellVals]} : n \in 1..MaxLen}

\* an array without mask
Unmasked(arr) ==
    [r \in 1..Len(arr) |-> [c \in 1..Len(arr[r]) |-> [v |-> arr[r][c], m |-> FALSE]]]

InitInterp ==
    /\ pc = "piecewise_linear"
    /\ threshold = Num(0)
    /\ h_pts \in AscendingX
    /\ si_h_pts \in [1..Len(h_pts) -> CurveY]
    /\ v_pts = <<>> /\ si_v_pts = <<>>
    /\ dep_src = NoRaster /\ vel_src = NoRaster
    /\ depth \in {Unmasked(a) : a \in ValueArrays}
    /\ velocity = <<>>
    /\ resampled = FALSE
    /\ si_h = <<>> /\ si_v = <<>> /\ chsi = <<>>
    /\ files = [f \in OutputFiles |-> "absent"]
    /\ n_pixels = 0 /\ total_area_m2 = 0
    /\ error = ""
    /\ stages = <<>>

\* si_h = piecewise_linear(depth.filled(np.nan), h_pts, si_h_pts)
Interpolate ==
    /\ pc = "piecewise_linear"
    /\ LET rh == piecewise_linear(Filled(depth), h_pts, si_h_pts)
       IN  /\ si_h' = rh.si
           /\ error' = rh.err
           /\ pc' = IF rh.err = "" THEN "returned" ELSE "failed"
    /\ UNCHANGED <<threshold, h_pts, si_h_pts, v_pts, si_v_pts, dep_src, vel_src,
                   depth, velocity, resampled, si_v, chsi, files, n_pixels,
                   total_area_m2, stages>>

NextInterp == Interpolate

SpecInterp == InitInterp /\ [][NextInterp]_vars

-----------------------------------------------------------------------------
(* properties of piecewise_linear, under SpecInterp *)

\* (v, s) lies on the straight line through (x0, y0) and (x1, y1)
OnLine(x0, y0, x1, y1, v, s) ==
    /\ ~IsNaN(s)
    /\ RMul(RSub(s, y0), RSub(x1, x0)) = RMul(RSub(y1, y0), RSub(v, x0))

\* the cells of the one-row value array
InterpCells == 1..Len(depth[1])

CellValue(c) == Filled(depth)[1][c]

ValidCurveReturned == pc = "returned" /\ Len(h_pts) >= 2

InDomain(v) == RLe(h_pts[1], v) /\ RLe(v, h_pts[Len(h_pts)])

\* C1: for a curve of at least two strictly ascending break points and a
\* non-missing value inside the curve domain, the SI lies on the straight line
\* joining two adjacent break points that bracket the value, and at a break
\* point's x it is exactly that break point's y.
C1_InDomainOnLine ==
    ValidCurveReturned =>
        \A c \in InterpCells :
            InDomain(CellValue(c)) =>
                /\ \E j \in 1..(Len(h_pts) - 1) :
                    /\ RLe(h_pts[j], CellValue(c))
                    /\ RLe(CellValue(c), h_pts[j + 1])
                    /\ OnLine(h_pts[j], si_h_pts[j], h_pts[j + 1], si_h_pts[j + 1],
                              CellValue(c), si_h[1][c])
                /\ \A j \in 1..Len(h_pts) :
                    CellValue(c) = h_pts[j] => si_h[1][c] = si_h_pts[j]

\* the curve x = [0, 1, 2], y = [0, 0.5, 1]
ExampleCurve == h_pts = <<Num(0), Num(1), Num(2)>> /\ si_h_pts = <<Num(0), Rat(1, 2), Num(1)>>

\* a value strictly inside a segment and a value on a break point, both
\* interpolated: 0.5 -> 0.25 and 1 -> 0.5
C1_Witness ==
    /\ pc = "returned"
    /\ ExampleCurve
    /\ Filled(depth) = << <<Rat(1, 2), Num(1)>> >>
    /\ si_h = << <<Rat(1, 4), Rat(1, 2)>> >>

\* the example of the extrapolation: value -> SI
ExampleMap ==
    {<<Num(0 - 1), Rat(0 - 1, 2)>>, <<Num(0), Num(0)>>, <<Rat(1, 2), Rat(1, 4)>>,
     <<Num(1), Rat(1, 2)>>, <<Rat(3, 2), Rat(3, 4)>>, <<Num(3), Rat(3, 2)>>}

\* C2: a non-missing value left of the domain gets y0 + slope_left * (v - x0)
\* from break points 0 and 1, a value right of it gets
\* y_last + slope_right * (v - x_last) from the last two break points, with no
\* clamping; the value at x_min is y0 and at x_max is y_last; the example curve
\* maps -1, 0, 0.5, 1, 1.5, 3 to -0.5, 0, 0.25, 0.5, 0.75, 1.5.
C2_Extrapolation ==
    ValidCurveReturned =>
        LET n == Len(h_pts) IN
        \A c \in InterpCells :
            /\ RLt(CellValue(c), h_pts[1]) =>
                OnLine(h_pts[1], si_h_pts[1], h_pts[2], si_h_pts[2],
                       CellValue(c), si_h[1][c])
            /\ RGt(CellValue(c), h_pts[n]) =>
                OnLine(h_pts[n - 1], si_h_pts[n - 1], h_pts[n], si_h_pts[n],
                       CellValue(c), si_h[1][c])
            /\ CellValue(c) = h_pts[1] => si_h[1][c] = si_h_pts[1]
            /\ CellValue(c) = h_pts[n] => si_h[1][c] = si_h_pts[n]
            /\ ExampleCurve =>
                \A e \in ExampleMap : CellValue(c) = e[1] => si_h[1][c] = e[2]

\* both ends of the example extrapolated outside [0, 1]: -1 -> -0.5, 3 -> 1.5
C2_Witness ==
    /\ pc = "returned"
    /\ ExampleCurve
    /\ Filled(depth) = << <<Num(0 - 1), Num(3)>> >>
    /\ si_h = << <<Rat(0 - 1, 2), Rat(3, 2)>> >>

-----------------------------------------------------------------------------
(* properties of calculate_habitat, under Spec *)

Ran(stage) == \E i \in 1..Len(stages) : stages[i] = stage

GridCells == (1..dep_src.height) \X (1..dep_src.width)

AllWritten == \A f \in OutputFiles : files[f] = "complete"

\* the sample is missing in the input raster
SrcMissing(src, rc) ==
    src.samples[rc[1]][rc[2]] = src.nodata \/ IsNaN(src.samples[rc[1]][rc[2]])

\* the velocity cells that lie under cell rc of the depth grid
VelUnder(rc) ==
    SrcLines(rc[1], vel_src.height, dep_src.height)
        \X SrcLines(rc[2], vel_src.width, dep_src.width)

\* the velocity input is missing at cell rc of the depth grid
VelMissingAt(rc) == \A s \in VelUnder(rc) : SrcMissing(vel_src, s)

ProductAt(rc) == RMul(si_h[rc[1]][rc[2]], si_v[rc[1]][rc[2]])

BothCurvesValid == Len(h_pts) >= 2 /\ Len(v_pts) >= 2

\* C3: with valid curves, a cell missing in the depth or in the velocity input
\* is missing in the corresponding SI raster and in the cHSI raster, and is
\* not usable at any threshold.
C3_MissingPropagates ==
    (Ran("compute") /\ BothCurvesValid) =>
        \A rc \in GridCells :
            /\ SrcMissing(dep_src, rc) =>
                /\ IsNaN(si_h[rc[1]][rc[2]])
                /\ SqrtIsNaN(chsi[rc[1]][rc[2]])
                /\ \A t \in Thresholds : rc \notin Usable(chsi, t)
            /\ VelMissingAt(rc) =>
                /\ IsNaN(si_v[rc[1]][rc[2]])
                /\ SqrtIsNaN(chsi[rc[1]][rc[2]])
                /\ \A t \in Thresholds : rc \notin Usable(chsi, t)

\* C4: a negative product si_h * si_v gives a NaN cHSI at that cell and the
\* cell is not counted; the computation fails only on a curve of fewer than
\* two points, so the run goes on to the three writes and the summary.
C4_NegativeProductIsNaN ==
    /\ Ran("compute") =>
        \A rc \in GridCells :
            RLt(ProductAt(rc), Num(0)) =>
                /\ SqrtIsNaN(chsi[rc[1]][rc[2]])
                /\ rc \notin Usable(chsi, threshold)
    /\ pc = "done" =>
        n_pixels <= Cardinality({rc \in GridCells : RLe(Num(0), ProductAt(rc))})
    /\ (pc = "failed" /\ Ran("open_align") /\ ~Ran("compute")) =>
        (error \in {"IndexError", "ValueError"} /\ ~BothCurvesValid)

\* a finished run, all three rasters written, with a negative product
C4_Witness ==
    /\ pc = "done"
    /\ AllWritten
    /\ BothCurvesValid
    /\ ~resampled
    /\ \E rc \in GridCells : RLt(ProductAt(rc), Num(0))
    /\ \E rc \in GridCells : RLt(Num(0), ProductAt(rc))
    /\ n_pixels = 1

\* cHSI squared at a cell; NaN when the cHSI is NaN
ChsiSquared(rc) == chsi[rc[1]][rc[2]].rad

\* C5: the count is exactly the number of cells with cHSI strictly above the
\* threshold, the area is the count times |pixel width * pixel height| of the
\* depth raster's transform, and a higher threshold never counts more cells.
\* (The thresholds tried are >= 0, so cHSI > threshold is compared on squares.)
C5_StrictCountAndArea ==
    pc = "done" =>
        /\ n_pixels = Cardinality({rc \in GridCells :
                /\ ~IsNaN(ChsiSquared(rc))
                /\ RLt(RMul(threshold, threshold), ChsiSquared(rc))})
        /\ \A rc \in GridCells :
                ChsiSquared(rc) = RMul(threshold, threshold)
                    => rc \notin Usable(chsi, threshold)
        /\ total_area_m2 = n_pixels * Abs(dep_src.transform[1] * dep_src.transform[5])
        /\ \A t2 \in Thresholds :
                /\ RLt(threshold, t2) => n_pixels >= CountUsable(chsi, t2)
                /\ RLt(t2, threshold) => n_pixels <= CountUsable(chsi, t2)

\* one cell above the threshold and one exactly at it: one pixel, 100 m2
C5_Witness ==
    /\ pc = "done"
    /\ BothCurvesValid
    /\ ~resampled
    /\ n_pixels = 1
    /\ total_area_m2 = 100
    /\ \E rc \in GridCells : ChsiSquared(rc) = RMul(threshold, threshold)

\* C6: with fewer than two complete pairs for the depth or the velocity curve
\* the run fails: it never gets past the SI computation, and no SI raster is
\* written.
C6_ShortCurveRejected ==
    (Ran("curve_load") /\ ~BothCurvesValid) =>
        /\ pc \in {"open_align", "compute", "failed"}
        /\ ~Ran("compute")
        /\ \A f \in OutputFiles : files[f] = "absent"

\* C7: the velocity is resampled iff width, height or transform differ from
\* the depth raster's; otherwise its values are used as stored; either way the
\* aligned velocity, both SI rasters and the cHSI have the depth raster's shape.
C7_ResampleIffGridsDiffer ==
    /\ Ran("open_align") =>
        /\ resampled <=> (\/ vel_src.width # dep_src.width
                          \/ vel_src.height # dep_src.height
                          \/ vel_src.transform # dep_src.transform)
        /\ ~resampled =>
            \A rc \in GridCells :
                /\ velocity[rc[1]][rc[2]].v = vel_src.samples[rc[1]][rc[2]]
                /\ velocity[rc[1]][rc[2]].m <=> SrcMissing(vel_src, rc)
        /\ Shape(depth) = <<dep_src.height, dep_src.width>>
        /\ Shape(velocity) = <<dep_src.height, dep_src.width>>
    /\ Ran("compute") =>
        /\ Shape(si_h) = <<dep_src.height, dep_src.width>>
        /\ Shape(si_v) = <<dep_src.height, dep_src.width>>
        /\ Shape(chsi) = <<dep_src.height, dep_src.width>>

\* a two-row velocity raster resampled onto a one-row, two-column depth grid
C7_Witness ==
    /\ pc = "done"
    /\ BothCurvesValid
    /\ resampled
    /\ <<vel_src.height, vel_src.width>> = <<2, 1>>
    /\ Shape(velocity) = <<1, 2>>
    /\ Shape(chsi) = <<1, 2>>

\* the grids agree and the velocity is used as stored
C7_WitnessSameGrid ==
    /\ pc = "done"
    /\ BothCurvesValid
    /\ ~resampled
    /\ Shape(chsi) = <<1, 2>>

\* C8: when the velocity is resampled (valid curves), a cell whose velocity
\* input is missing is missing (masked) in the aligned velocity, and so in
\* SI-velocity and cHSI.
C8_ResampledMissingStaysMissing ==
    (Ran("open_align") /\ resampled /\ BothCurvesValid) =>
        \A rc \in GridCells :
            VelMissingAt(rc) =>
                /\ velocity[rc[1]][rc[2]].m
                /\ Ran("compute") =>
                    /\ IsNaN(si_v[rc[1]][rc[2]])
                    /\ SqrtIsNaN(chsi[rc[1]][rc[2]])

IsPrefix(s, t) == Len(s) <= Len(t) /\ \A i \in 1..Len(s) : s[i] = t[i]

\* C9: the stages run in the fixed order and nothing runs after a failure, the
\* summary is reported only after the three writes, and (with valid curves) no
\* output file is left partially written.
C9_FatalErrorsNoPartialFile ==
    /\ IsPrefix(stages, StageOrder)
    /\ pc = "failed" => (error # "" /\ ~Ran("summary"))
    /\ pc # "failed" => error = ""
    /\ Ran("summary") => (pc = "done" /\ AllWritten)
    /\ BothCurvesValid => \A f \in OutputFiles : files[f] # "partial"

\* the parts of C9 other than the partial file
C9_OrderAndFatality ==
    /\ IsPrefix(stages, StageOrder)
    /\ pc = "failed" => (error # "" /\ ~Ran("summary"))
    /\ pc # "failed" => error = ""
    /\ Ran("summary") => (pc = "done" /\ AllWritten)

\* C10: for a threshold >= 0 every usable cell has a non-negative, non-missing
\* depth SI and velocity SI (stated for runs on equal grids with valid curves,
\* where no nodata marker reaches the interpolation).
C10_UsableHasNonNegativeSI ==
    (pc = "done" /\ RLe(Num(0), threshold) /\ ~resampled /\ BothCurvesValid) =>
        \A rc \in Usable(chsi, threshold) :
            /\ RLe(Num(0), si_h[rc[1]][rc[2]])
            /\ RLe(Num(0), si_v[rc[1]][rc[2]])

====
